---- MODULE Spec2Model ----
(***************************************************************************)
(* A model of the eventful crate: the NSQ module (src/src/nsq.rs: endpoint *)
(* model, publish over HTTP, consumer session, event decoding) and the SQS *)
(* module (src/src/sqs.rs: publish, poll_messages, poll).  The brokers     *)
(* themselves (nsqd, SQS) are external; they are modelled by the replies   *)
(* their clients can give and by the messages they hold.                   *)
(***************************************************************************)
EXTENDS Integers, Sequences, FiniteSets, TLC

VARIABLES
    env,      \* the process environment: variable name -> value (or Unset)
    fleet,    \* the FleetNSQ built by FleetNSQ::new_from_env, or NoFleet
    sel,      \* the outcome of the last endpoint-selection / construction call
    pc,       \* the position of the calling task inside the current call
    op,       \* the entry point the calling task is in
    arg,      \* the arguments of the current call
    reqs,     \* the broker requests issued by the current call, in order
    ret,      \* the value the current call returned
    msgs,     \* poll_messages: the local `messages`
    idx,      \* poll_messages: position of the delete loop in `messages`
    queue,    \* broker B: the messages on the SQS queue
    nsqd,     \* broker A: the messages held by the nsqd daemons
    session,  \* the NSQConsumer built by ChannelConsumer::consumer, or NoSession
    held,     \* envelopes the consumer task received and has not finished
    dres,     \* the result of the consumer task's last deserialize_event
    nextId    \* the next broker-assigned message identifier

vars == <<env, fleet, sel, pc, op, arg, reqs, ret, msgs, idx, queue, nsqd,
          session, held, dres, nextId>>

----------------------------------------------------------------------------
(* Bounds of the model *)

\* messages created (published by this crate or by a foreign producer) in a run
MaxMsgs == 2
\* messages one SQS receive reply can carry
MaxBatch == 2

----------------------------------------------------------------------------
(* Option<T>: None is the empty sequence, Some(v) the one-element sequence *)

None == <<>>
Some(v) == <<v>>
IsSome(o) == Len(o) = 1
Unwrap(o) == o[1]

----------------------------------------------------------------------------
(* Text.  A string is a sequence of tokens; a token is one character or a   *)
(* fixed literal of the source (such as "http://").                         *)

Digit == <<"0", "1", "2", "3", "4", "5", "6", "7", "8", "9">>

IsDigit(c) == \E d \in 1..10 : Digit[d] = c

DigitVal(c) == (CHOOSE d \in 1..10 : Digit[d] = c) - 1

RECURSIVE NatDigits(_)
\* Display of an unsigned integer, as format!("{}") and serde_json write it
NatDigits(n) ==
    IF n < 10 THEN <<Digit[n + 1]>>
    ELSE NatDigits(n \div 10) \o <<Digit[(n % 10) + 1]>>

\* Display of a signed integer
IntDigits(n) == IF n < 0 THEN <<"-">> \o NatDigits(0 - n) ELSE NatDigits(n)

U16Max == 65535

RECURSIVE DigitsValue(_, _)
DigitsValue(s, acc) ==
    IF s = <<>> THEN acc
    ELSE DigitsValue(Tail(s), acc * 10 + DigitVal(Head(s)))

\* str::parse::<u16>: an optional leading "+", then one or more digits, in range
ParseU16(s) ==
    LET body == IF s # <<>> /\ Head(s) = "+" THEN Tail(s) ELSE s IN
    IF body = <<>> \/ \E i \in 1..Len(body) : ~IsDigit(body[i])
    THEN None
    ELSE IF DigitsValue(body, 0) > U16Max THEN None
         ELSE Some(DigitsValue(body, 0))

----------------------------------------------------------------------------
(* The wire format: serde_json over the payload struct                      *)
(*     struct UserClickedSomething { user_id: i32, clicked_on: String }     *)
(* A body is the sequence of the characters of the JSON text (a field name  *)
(* is kept as one token).                                                   *)

Quote == "\""
Backslash == "\\"

I32Max == 2147483647

RECURSIVE EscapeStr(_)
\* serde_json string escaping: a quote and a backslash get a backslash
EscapeStr(s) ==
    IF s = <<>> THEN <<>>
    ELSE (IF Head(s) \in {Quote, Backslash} THEN <<Backslash, Head(s)>>
          ELSE <<Head(s)>>) \o EscapeStr(Tail(s))

JsonString(s) == <<Quote>> \o EscapeStr(s) \o <<Quote>>

\* serde_json::to_string of the payload struct: fields in declaration order
ToJson(p) ==
    <<"{">> \o JsonString(<<"user_id">>) \o <<":">> \o IntDigits(p.user_id)
    \o <<",">> \o JsonString(<<"clicked_on">>) \o <<":">>
    \o JsonString(p.clicked_on) \o <<"}">>

Fail == [ok |-> FALSE]

RECURSIVE StrBody(_, _, _)
\* the characters of a JSON string up to its closing quote, unescaped
StrBody(s, i, acc) ==
    IF i > Len(s) THEN Fail
    ELSE IF s[i] = Quote THEN [ok |-> TRUE, val |-> acc, next |-> i + 1]
    ELSE IF s[i] = Backslash
         THEN IF i + 1 <= Len(s) /\ s[i + 1] \in {Quote, Backslash}
              THEN StrBody(s, i + 2, Append(acc, s[i + 1]))
              ELSE Fail
    ELSE StrBody(s, i + 1, Append(acc, s[i]))

ParseJsonString(s, i) ==
    IF i <= Len(s) /\ s[i] = Quote THEN StrBody(s, i + 1, <<>>) ELSE Fail

RECURSIVE DigitRun(_, _)
\* the index after the run of digits that starts at i
DigitRun(s, i) ==
    IF i <= Len(s) /\ IsDigit(s[i]) THEN DigitRun(s, i + 1) ELSE i

ParseJsonInt(s, i) ==
    LET neg  == i <= Len(s) /\ s[i] = "-"
        from == IF neg THEN i + 1 ELSE i
        to   == DigitRun(s, from)
        mag  == DigitsValue(SubSeq(s, from, to - 1), 0)
    IN  IF to = from THEN Fail
        ELSE IF to - from > 1 /\ s[from] = "0" THEN Fail
        ELSE [ok |-> TRUE, val |-> IF neg THEN 0 - mag ELSE mag, next |-> to]

\* one JSON value of the kinds the payload uses: a string or an integer
ParseValue(s, i) ==
    IF i > Len(s) THEN Fail
    ELSE IF s[i] = Quote
         THEN LET r == ParseJsonString(s, i) IN
              IF r.ok THEN [ok |-> TRUE, kind |-> "str", val |-> r.val, next |-> r.next]
              ELSE Fail
    ELSE LET r == ParseJsonInt(s, i) IN
         IF r.ok THEN [ok |-> TRUE, kind |-> "int", val |-> r.val, next |-> r.next]
         ELSE Fail

RECURSIVE Members(_, _, _)
\* the members of a JSON object from position i to its closing brace
Members(s, i, acc) ==
    LET k == ParseJsonString(s, i) IN
    IF ~k.ok THEN Fail
    ELSE IF ~(k.next <= Len(s) /\ s[k.next] = ":") THEN Fail
    ELSE LET v == ParseValue(s, k.next + 1) IN
         IF ~v.ok THEN Fail
         ELSE LET all == Append(acc, [key |-> k.val, kind |-> v.kind, val |-> v.val]) IN
              IF v.next > Len(s) THEN Fail
              ELSE IF s[v.next] = "," THEN Members(s, v.next + 1, all)
              ELSE IF s[v.next] = "}"
                   THEN [ok |-> TRUE, val |-> all, next |-> v.next + 1]
              ELSE Fail

Field(ms, name) == { j \in 1..Len(ms) : ms[j].key = <<name>> }

\* serde_json::from_str / from_slice into the payload struct: every field
\* present once with its type, unknown fields ignored, nothing after the object
FromJson(s) ==
    IF ~(Len(s) >= 2 /\ s[1] = "{") THEN Fail
    ELSE LET m == Members(s, 2, <<>>) IN
         IF ~m.ok THEN Fail
         ELSE IF m.next # Len(s) + 1 THEN Fail
         ELSE LET u == Field(m.val, "user_id")
                  c == Field(m.val, "clicked_on")
              IN  IF Cardinality(u) # 1 \/ Cardinality(c) # 1 THEN Fail
                  ELSE LET uv == m.val[CHOOSE j \in u : TRUE]
                           cv == m.val[CHOOSE j \in c : TRUE]
                       IN  IF uv.kind # "int" \/ cv.kind # "str" THEN Fail
                           ELSE IF uv.val > I32Max \/ uv.val < 0 - I32Max - 1 THEN Fail
                           ELSE [ok |-> TRUE,
                                 val |-> [user_id |-> uv.val, clicked_on |-> cv.val]]

\* the payloads the model publishes
Payloads ==
    { [user_id |-> 5, clicked_on |-> <<"x">>],
      [user_id |-> 0 - 12, clicked_on |-> <<Quote, Backslash>>] }

\* a body a foreign producer put on the topic / queue: a required field is missing
MalformedBody == <<"{">> \o JsonString(<<"user_id">>) \o <<":", "5", "}">>

----------------------------------------------------------------------------
(* Results of calls *)

Ok(v) == [kind |-> "ok", val |-> v]
Err(e) == [kind |-> "err", err |-> e]
Panic == [kind |-> "panic"]
NoResult == [kind |-> "none"]

----------------------------------------------------------------------------
(* Endpoint model (nsq.rs: Daemon, FleetNSQ, rand_nsq_url, rand_nsqd_url)  *)

HttpPort == 4151
TcpPort == 4150

\* the nsqd daemons that run: where each listens
World ==
    [i \in 1..3 |->
        [host |-> <<"nsqd", Digit[i + 1]>>, http |-> HttpPort, tcp |-> TcpPort]]

\* Daemon::new with the consume address built from the HTTP port
DaemonNew_HttpPortAddress(host, http_port, tcp_port) ==
    [host         |-> host,
     http_port    |-> http_port,
     tcp_port     |-> tcp_port,
     pub_url      |-> <<"http://">> \o host \o <<":">> \o NatDigits(http_port),
     cons_address |-> host \o <<":">> \o NatDigits(http_port)]

\* Daemon::new
DaemonNew(host, http_port, tcp_port) ==
    [host         |-> host,
     http_port    |-> http_port,
     tcp_port     |-> tcp_port,
     pub_url      |-> <<"http://">> \o host \o <<":">> \o NatDigits(http_port),
     cons_address |-> host \o <<":">> \o NatDigits(tcp_port)]

\* env::var(name).unwrap().parse::<u16>().unwrap(): the port, or None on a panic
EnvPort(e, name) == IF IsSome(e[name]) THEN ParseU16(Unwrap(e[name])) ELSE None

\* Daemon::new_from_env
DaemonNewFromEnv(e, var_host, var_http_port, var_tcp_port) ==
    IF ~IsSome(e[var_host]) THEN Panic
    ELSE IF ~IsSome(EnvPort(e, var_http_port)) THEN Panic
    ELSE IF ~IsSome(EnvPort(e, var_tcp_port)) THEN Panic
    ELSE Ok(DaemonNew(Unwrap(e[var_host]), Unwrap(EnvPort(e, var_http_port)),
                      Unwrap(EnvPort(e, var_tcp_port))))

VarHost(i) == <<"NSQ", i, "_HOST">>
VarHttp(i) == <<"NSQ", i, "_HTTP_PORT">>
VarTcp(i) == <<"NSQ", i, "_TCP_PORT">>

EnvVars == UNION { {VarHost(i), VarHttp(i), VarTcp(i)} : i \in 1..3 }

\* FleetNSQ::new_from_env
FleetNewFromEnvResult(e) ==
    LET d(i) == DaemonNewFromEnv(e, VarHost(i), VarHttp(i), VarTcp(i)) IN
    IF d(1).kind = "panic" \/ d(2).kind = "panic" \/ d(3).kind = "panic"
    THEN Panic
    ELSE Ok([d1 |-> d(1).val, d2 |-> d(2).val, d3 |-> d(3).val])

\* the draw made with gen_range(1..3)
RandRange_Short == 1..2

\* rand::thread_rng().gen_range(1..4)
RandRange == 1..3

\* FleetNSQ::rand: the match on the drawn number
FleetPick(f, i) == IF i = 1 THEN f.d1 ELSE IF i = 2 THEN f.d2 ELSE f.d3

\* FleetNSQ::as_refs
AsRefs(f) == <<f.d1, f.d2, f.d3>>

\* rand_nsq_url: the match on the drawn number; two unchecked env lookups
NsqUrlPick(e, i) ==
    LET j == IF i = 1 THEN 1 ELSE IF i = 2 THEN 2 ELSE 3 IN
    IF ~IsSome(e[VarHost(j)]) \/ ~IsSome(e[VarHttp(j)]) THEN Panic
    ELSE Ok(<<"http://">> \o Unwrap(e[VarHost(j)]) \o <<":">> \o Unwrap(e[VarHttp(j)]))

RECURSIVE Split(_, _)
\* str::split(","): the segments between the separators (never an empty list)
Split(s, cur) ==
    IF s = <<>> THEN <<cur>>
    ELSE IF Head(s) = "," THEN <<cur>> \o Split(Tail(s), <<>>)
    ELSE Split(Tail(s), Append(cur, Head(s)))

\* slice.choose(rng): the positions the draw can land on
ChooseRange(list) == 1..Len(list)

\* rand_nsqd_url: choose(..).unwrap().to_string() for the drawn position k
NsqdUrlPick(urls, k) ==
    LET sp == Split(urls, <<>>) IN
    IF k \in 1..Len(sp) THEN Ok(sp[k]) ELSE Panic

\* the lists rand_nsqd_url is called with
UrlLists ==
    { <<>>, <<"u1">>, <<"u1", ",", "u2">>, <<"u1", ",", "u2", ",", "u3">> }

\* a list and a position in it
UrlPicks == { uk \in UrlLists \X (1..3) : uk[2] <= Len(Split(uk[1], <<>>)) }

\* the environments a process can start in: per daemon, its three variables
\* are well-formed, or unset, or its HTTP port is not a number
EnvKinds == {"set", "unset", "badport"}

EnvOf(kinds) ==
    [v \in EnvVars |->
        LET i == v[2] IN
        IF kinds[i] = "unset" THEN None
        ELSE IF v = VarHost(i) THEN Some(World[i].host)
        ELSE IF v = VarHttp(i)
             THEN (IF kinds[i] = "badport" THEN Some(<<"a", "b">>)
                   ELSE Some(NatDigits(World[i].http)))
        ELSE Some(NatDigits(World[i].tcp))]

EnvConfigs == { EnvOf(k) : k \in [1..3 -> EnvKinds] }

EnvAllSet == EnvOf([i \in 1..3 |-> "set"])

NoFleet == [kind |-> "none"]

Idle == [call |-> "none"]

----------------------------------------------------------------------------
(* Endpoint selection and construction: synchronous calls, one step each   *)

\* FleetNSQ::new_from_env()
FleetNewFromEnv ==
    LET r == FleetNewFromEnvResult(env) IN
    /\ sel' = [call |-> "FleetNSQ::new_from_env", res |-> r]
    /\ fleet' = IF r.kind = "ok" THEN r ELSE fleet
    /\ UNCHANGED <<env, pc, op, arg, reqs, ret, msgs, idx, queue, nsqd,
                   session, held, dres, nextId>>

\* fleet.rand(), the draw being i
FleetRand(i) ==
    /\ fleet # NoFleet
    /\ i \in RandRange
    /\ sel' = [call |-> "FleetNSQ::rand", res |-> Ok(FleetPick(fleet.val, i))]
    /\ UNCHANGED <<env, fleet, pc, op, arg, reqs, ret, msgs, idx, queue, nsqd,
                   session, held, dres, nextId>>

\* rand_nsq_url(), the draw being i
RandNsqUrl(i) ==
    /\ i \in RandRange
    /\ sel' = [call |-> "rand_nsq_url", res |-> NsqUrlPick(env, i)]
    /\ UNCHANGED <<env, fleet, pc, op, arg, reqs, ret, msgs, idx, queue, nsqd,
                   session, held, dres, nextId>>

\* rand_nsqd_url(urls), the draw being position k
RandNsqdUrl(urls, k) ==
    /\ k \in ChooseRange(Split(urls, <<>>))
    /\ sel' = [call |-> "rand_nsqd_url", urls |-> urls, res |-> NsqdUrlPick(urls, k)]
    /\ UNCHANGED <<env, fleet, pc, op, arg, reqs, ret, msgs, idx, queue, nsqd,
                   session, held, dres, nextId>>

----------------------------------------------------------------------------
(* The calling task: one call at a time *)

NoArg == [none |-> TRUE]

\* the caller takes the returned value and is free to make the next call
Resume ==
    /\ pc = "returned"
    /\ pc' = "idle"
    /\ op' = "none"
    /\ arg' = NoArg
    /\ reqs' = <<>>
    /\ ret' = NoResult
    /\ msgs' = <<>>
    /\ idx' = 0
    /\ UNCHANGED <<env, fleet, sel, queue, nsqd, session, held, dres, nextId>>

\* an event whose Serialize implementation reports an error
Unserializable ==
    [payload |-> [user_id |-> 0, clicked_on |-> <<>>], gid |-> None,
     serializable |-> FALSE]

\* serde_json::to_string(event)
SerdeToString(e) == IF ~e.serializable THEN Err("SerdeJSON") ELSE Ok(ToJson(e.payload))

----------------------------------------------------------------------------
(* Broker A: publishing (EventNSQ, post_json)                              *)

\* EventNSQ::topic() of the payload type (examples/nsq/main.rs)
Topic == "click"

\* ChannelConsumer::channel() of the consumer (examples/nsq/main.rs)
Channel == "some_channel"

\* the Daemon values the application holds: Daemon::new per running daemon
Daemons == [i \in 1..3 |-> DaemonNew(World[i].host, World[i].http, World[i].tcp)]

\* post_json: format!("{}/pub?topic={}", host, topic)
PostUrl(host, topic) == host \o <<"/pub?topic=", topic>>

\* a host that no daemon listens on
NowhereUrl == <<"http://", "nowhere", ":", "1">>

PubHosts == { Daemons[i].pub_url : i \in 1..3 } \cup {NowhereUrl}

NsqEvents ==
    { [payload |-> p, gid |-> None, serializable |-> TRUE] : p \in Payloads }
    \cup {Unserializable}

\* nsqd's side of the POST: the daemons listening at the address of the URL
HttpTargets(url) ==
    { w \in 1..3 :
        /\ Len(url) >= 2
        /\ url[Len(url) - 1] = "/pub?topic="
        /\ SubSeq(url, 1, Len(url) - 2)
             = <<"http://">> \o World[w].host \o <<":">> \o NatDigits(World[w].http) }

\* the Daemon value whose publish URL the call was given (0: none of them)
Via(host) ==
    IF \E i \in 1..3 : Daemons[i].pub_url = host
    THEN CHOOSE i \in 1..3 : Daemons[i].pub_url = host
    ELSE 0

\* where the call goes after the POST failed: `?` returns the error
AfterPostError == "returned"

\* event.publish_to_url(host)
PublishToUrl(e, host) ==
    /\ pc = "idle"
    /\ nextId <= MaxMsgs
    /\ pc' = "post"
    /\ op' = "publish_to_url"
    /\ arg' = [event |-> e, host |-> host]
    /\ UNCHANGED <<env, fleet, sel, reqs, ret, msgs, idx, queue, nsqd, session,
                   held, dres, nextId>>

\* event.publish_to(daemon): publish_to_url(&daemon.pub_url)
PublishTo(e, d) ==
    /\ pc = "idle"
    /\ nextId <= MaxMsgs
    /\ pc' = "post"
    /\ op' = "publish_to"
    /\ arg' = [event |-> e, host |-> Daemons[d].pub_url]
    /\ UNCHANGED <<env, fleet, sel, reqs, ret, msgs, idx, queue, nsqd, session,
                   held, dres, nextId>>

\* post_json -> post_noback: the body cannot be serialized, no request is made
PostEncodeError ==
    /\ pc = "post"
    /\ SerdeToString(arg.event).kind = "err"
    /\ ret' = Err("Hyperactive")
    /\ pc' = "returned"
    /\ UNCHANGED <<env, fleet, sel, op, arg, reqs, msgs, idx, queue, nsqd, session,
                   held, dres, nextId>>

\* post_json -> post_noback: the POST is made and nsqd (or the network) answers
PostRespond(accepted) ==
    LET body == SerdeToString(arg.event)
        url  == PostUrl(arg.host, Topic)
    IN
    /\ pc = "post"
    /\ body.kind = "ok"
    /\ accepted => HttpTargets(url) # {}
    /\ reqs' = Append(reqs, [kind |-> "post", url |-> url, ok |-> accepted])
    /\ IF accepted
       THEN /\ nsqd' = nsqd \cup
                   { [id |-> nextId, daemon |-> w, topic |-> url[Len(url)],
                      body |-> body.val, sent |-> Some(arg.event.payload),
                      via |-> Via(arg.host)] : w \in HttpTargets(url) }
            /\ nextId' = nextId + 1
            /\ ret' = Ok("unit")
            /\ pc' = "returned"
       ELSE /\ ret' = Err("Hyperactive")
            /\ pc' = AfterPostError
            /\ UNCHANGED <<nsqd, nextId>>
    /\ UNCHANGED <<env, fleet, sel, op, arg, msgs, idx, queue, session, held, dres>>

\* another producer publishes a body that is not a well-formed payload
ForeignPub(w) ==
    /\ nextId <= MaxMsgs
    /\ nsqd' = nsqd \cup { [id |-> nextId, daemon |-> w, topic |-> Topic,
                            body |-> MalformedBody, sent |-> None, via |-> 0] }
    /\ nextId' = nextId + 1
    /\ UNCHANGED <<env, fleet, sel, pc, op, arg, reqs, ret, msgs, idx, queue,
                   session, held, dres>>

----------------------------------------------------------------------------
(* Broker A: consuming (ChannelConsumer)                                   *)

\* .set_max_in_flight(15)
MaxInFlight == 15

NoSession == [kind |-> "none"]

\* the daemon slices consumer() is called with
DaemonLists == { <<1>>, <<2, 3>>, <<1, 2, 3>> }

RECURSIVE ConfigSource(_)
\* ChannelConsumer::config_source: the consume address of every daemon given
ConfigSource(ds) ==
    IF ds = <<>> THEN <<>>
    ELSE <<Daemons[Head(ds)].cons_address>> \o ConfigSource(Tail(ds))

\* ChannelConsumer::consumer
ConsumerConfig(ds) ==
    [kind          |-> "session",
     topic         |-> Topic,
     channel       |-> Channel,
     max_in_flight |-> MaxInFlight,
     sources       |-> ConfigSource(ds),
     over          |-> ds]

\* self.consumer(daemons)
Consumer(ds) ==
    /\ session = NoSession
    /\ session' = ConsumerConfig(ds)
    /\ UNCHANGED <<env, fleet, sel, pc, op, arg, reqs, ret, msgs, idx, queue, nsqd,
                   held, dres, nextId>>

\* nsqd's side of the subscription: the session reaches daemon w over TCP
Connected(s, w) ==
    \E k \in 1..Len(s.sources) :
        s.sources[k] = World[w].host \o <<":">> \o NatDigits(World[w].tcp)

\* consumer.consume_filtered().await returns the envelope m
ConsumeFiltered(m) ==
    /\ session # NoSession
    /\ m \in nsqd
    /\ m.topic = session.topic
    /\ Connected(session, m.daemon)
    /\ Cardinality(held) < session.max_in_flight
    /\ nsqd' = nsqd \ {m}
    /\ held' = held \cup {m}
    /\ dres' = NoResult
    /\ UNCHANGED <<env, fleet, sel, pc, op, arg, reqs, ret, msgs, idx, queue,
                   session, nextId>>

\* ChannelConsumer::deserialize_event(&message)
DeserializeEvent(body) ==
    LET r == FromJson(body) IN
    IF r.ok THEN Ok(r.val) ELSE Err("SerdeJSON")

\* self.deserialize_event(&message) on a held envelope
Deserialize(m) ==
    /\ m \in held
    /\ dres' = [kind |-> "done", id |-> m.id, res |-> DeserializeEvent(m.body)]
    /\ UNCHANGED <<env, fleet, sel, pc, op, arg, reqs, ret, msgs, idx, queue, nsqd,
                   session, held, nextId>>

\* message.finish().await
Finish(m) ==
    /\ m \in held
    /\ held' = held \ {m}
    /\ dres' = NoResult
    /\ UNCHANGED <<env, fleet, sel, pc, op, arg, reqs, ret, msgs, idx, queue, nsqd,
                   session, nextId>>

----------------------------------------------------------------------------
(* Broker B: ClientSQS                                                     *)

\* Event::queue_url() of the payload type
QueueUrl == "queue_url"

GroupKeys == {"g1", "g2"}

SqsEvents ==
    { [payload |-> p, gid |-> g, serializable |-> TRUE] :
        p \in Payloads, g \in {None} \cup { Some(k) : k \in GroupKeys } }
    \cup {Unserializable}

\* Event::group_id(&self) as the event type implements it
GroupId(e) == e.gid

\* ClientSQS::publish: the request built by the match on event.group_id()
SendMessageRequest(e, body) ==
    IF IsSome(GroupId(e))
    THEN [kind |-> "send", queue_url |-> QueueUrl, body |-> body,
          group |-> Some("abc")]
    ELSE [kind |-> "send", queue_url |-> QueueUrl, body |-> body, group |-> None]

\* ClientSQS::publish: output.message_id.unwrap()
MessageIdResult(message_id) ==
    IF IsSome(message_id) THEN Ok(Unwrap(message_id)) ELSE Panic

\* a failed send is issued again
AfterSendError_Retry == "send"

\* where publish goes after the send failed: `?` returns the error
AfterSendError == "returned"

\* what SQS (or the network) can answer to a send
SendOutcomes == {"error", "sent", "sent_without_id"}

\* client.publish(&event)
Publish(e) ==
    /\ pc = "idle"
    /\ nextId <= MaxMsgs
    /\ op' = "publish"
    /\ arg' = [event |-> e]
    /\ IF SerdeToString(e).kind = "err"
       THEN /\ ret' = SerdeToString(e)
            /\ pc' = "returned"
       ELSE /\ pc' = "send"
            /\ UNCHANGED ret
    /\ UNCHANGED <<env, fleet, sel, reqs, msgs, idx, queue, nsqd, session, held,
                   dres, nextId>>

\* send_msg.send().await and what follows it
SendRespond(o) ==
    LET req == SendMessageRequest(arg.event, SerdeToString(arg.event).val) IN
    /\ pc = "send"
    /\ o \in SendOutcomes
    /\ reqs' = Append(reqs, req @@ [ok |-> o # "error"])
    /\ IF o = "error"
       THEN /\ ret' = Err("SQS")
            /\ pc' = AfterSendError
            /\ UNCHANGED <<queue, nextId>>
       ELSE /\ queue' = queue \cup {[id |-> nextId, body |-> req.body]}
            /\ nextId' = nextId + 1
            /\ ret' = MessageIdResult(IF o = "sent" THEN Some(nextId) ELSE None)
            /\ pc' = "returned"
    /\ UNCHANGED <<env, fleet, sel, op, arg, msgs, idx, nsqd, session, held, dres>>

\* another producer sends a body that is not a well-formed payload
ForeignSend ==
    /\ nextId <= MaxMsgs
    /\ queue' = queue \cup {[id |-> nextId, body |-> MalformedBody]}
    /\ nextId' = nextId + 1
    /\ UNCHANGED <<env, fleet, sel, pc, op, arg, reqs, ret, msgs, idx, nsqd,
                   session, held, dres>>

\* sequences of distinct elements of S, of length n
RECURSIVE Arrangements(_, _)
Arrangements(S, n) ==
    IF n = 0 THEN {<<>>}
    ELSE UNION { { <<x>> \o t : t \in Arrangements(S \ {x}, n - 1) } : x \in S }

\* the replies SQS can give to a receive: up to MaxBatch messages of the queue,
\* each with its receipt handle, or (at most one of them) without one
ReceiveReplies ==
    UNION { { [k \in 1..n |->
                 [id |-> a[k].id, body |-> Some(a[k].body),
                  receipt_handle |-> IF k = bare THEN None ELSE Some(a[k].id)]] :
              a \in Arrangements(queue, n), bare \in 0..n } :
            n \in 0..MaxBatch }

\* the delete loop run whatever the flag says
DeleteLoopStart_IgnoresFlag(delete_on_receipt, messages) == 1

\* poll_messages: `if delete_on_receipt { for message in &messages {..} }`:
\* the position the delete loop starts at (past the end: the loop is not run)
DeleteLoopStart(delete_on_receipt, messages) ==
    IF delete_on_receipt THEN 1 ELSE Len(messages) + 1

\* poll_messages: the match on &message.receipt_handle (None => continue)
HasHandle(m) == IsSome(m.receipt_handle)

\* where poll_messages goes after the receive failed: `?` returns the error
AfterReceiveError == "returned"

\* where poll_messages goes after a delete failed: `?` returns the error
AfterDeleteError == "returned"

\* what SQS (or the network) can answer to a delete: done; refused; or done
\* with the answer lost, which the client reports as an error
DeleteOutcomes == {"deleted", "error", "deleted_error"}

\* client.poll_messages(queue_url, delete_on_receipt)
PollMessages(delete_on_receipt) ==
    /\ pc = "idle"
    /\ pc' = "receive"
    /\ op' = "poll_messages"
    /\ arg' = [delete_on_receipt |-> delete_on_receipt]
    /\ UNCHANGED <<env, fleet, sel, reqs, ret, msgs, idx, queue, nsqd, session,
                   held, dres, nextId>>

\* client.poll::<T>(delete_on_receipt): poll_messages, then decode
Poll(delete_on_receipt) ==
    /\ pc = "idle"
    /\ pc' = "receive"
    /\ op' = "poll"
    /\ arg' = [delete_on_receipt |-> delete_on_receipt]
    /\ UNCHANGED <<env, fleet, sel, reqs, ret, msgs, idx, queue, nsqd, session,
                   held, dres, nextId>>

\* receive_message().send().await fails
ReceiveError ==
    /\ pc = "receive"
    /\ reqs' = Append(reqs, [kind |-> "receive", ok |-> FALSE])
    /\ ret' = Err("SQS")
    /\ pc' = AfterReceiveError
    /\ UNCHANGED <<env, fleet, sel, op, arg, msgs, idx, queue, nsqd, session, held,
                   dres, nextId>>

\* receive_message().send().await answers; messages.unwrap_or_default()
ReceiveRespond ==
    /\ pc = "receive"
    /\ \E batch \in ReceiveReplies :
          /\ msgs' = batch
          /\ idx' = DeleteLoopStart(arg.delete_on_receipt, batch)
    /\ reqs' = Append(reqs, [kind |-> "receive", ok |-> TRUE])
    /\ pc' = "loop"
    /\ UNCHANGED <<env, fleet, sel, op, arg, ret, queue, nsqd, session, held, dres,
                   nextId>>

\* the delete loop passes over a message that carries no receipt handle
DeleteSkip ==
    /\ pc = "loop"
    /\ idx <= Len(msgs)
    /\ ~HasHandle(msgs[idx])
    /\ idx' = idx + 1
    /\ UNCHANGED <<env, fleet, sel, pc, op, arg, reqs, ret, msgs, queue, nsqd,
                   session, held, dres, nextId>>

\* delete_message().send().await for the message at the loop position
DeleteRespond(o) ==
    LET m == msgs[idx] IN
    /\ pc = "loop"
    /\ idx <= Len(msgs)
    /\ HasHandle(m)
    /\ o \in DeleteOutcomes
    /\ reqs' = Append(reqs, [kind |-> "delete", handle |-> Unwrap(m.receipt_handle),
                             ok |-> o = "deleted", applied |-> o # "error"])
    /\ queue' = IF o = "error" THEN queue
                ELSE { q \in queue : q.id # Unwrap(m.receipt_handle) }
    /\ IF o = "deleted"
       THEN /\ idx' = idx + 1
            /\ UNCHANGED <<pc, ret>>
       ELSE /\ ret' = Err("SQS")
            /\ pc' = AfterDeleteError
            /\ UNCHANGED idx
    /\ UNCHANGED <<env, fleet, sel, op, arg, msgs, nsqd, session, held, dres, nextId>>

RECURSIVE DecodeAll(_, _)
\* ClientSQS::poll: the decode loop; `?` returns the first decode error
DecodeAll(ms, resp) ==
    IF ms = <<>> THEN Ok(resp)
    ELSE LET body == IF IsSome(Head(ms).body) THEN Unwrap(Head(ms).body) ELSE <<>>
             jz   == FromJson(body)
         IN  IF jz.ok THEN DecodeAll(Tail(ms), Append(resp, jz.val))
             ELSE Err("SerdeJSON")

\* poll_messages: Ok(messages); for poll, the decode loop over them follows
PollReturn ==
    /\ pc = "loop"
    /\ idx > Len(msgs)
    /\ ret' = IF op = "poll" THEN DecodeAll(msgs, <<>>) ELSE Ok(msgs)
    /\ pc' = "returned"
    /\ UNCHANGED <<env, fleet, sel, op, arg, reqs, msgs, idx, queue, nsqd, session,
                   held, dres, nextId>>

----------------------------------------------------------------------------
(* Specifications *)

InitCommon ==
    /\ fleet = NoFleet
    /\ sel = Idle
    /\ pc = "idle"
    /\ op = "none"
    /\ arg = NoArg
    /\ reqs = <<>>
    /\ ret = NoResult
    /\ msgs = <<>>
    /\ idx = 0
    /\ queue = {}
    /\ nsqd = {}
    /\ session = NoSession
    /\ held = {}
    /\ dres = NoResult
    /\ nextId = 1

\* a process whose environment names the three running daemons
Init == env = EnvAllSet /\ InitCommon

\* a process started in any of the environments
InitEndpoint == env \in EnvConfigs /\ InitCommon

NextEndpoint ==
    \/ FleetNewFromEnv
    \/ \E i \in RandRange : FleetRand(i)
    \/ \E i \in RandRange : RandNsqUrl(i)
    \/ \E urls \in UrlLists : \E k \in ChooseRange(Split(urls, <<>>)) :
          RandNsqdUrl(urls, k)

NextNSQ ==
    \/ \E e \in NsqEvents, host \in PubHosts : PublishToUrl(e, host)
    \/ \E e \in NsqEvents, d \in 1..3 : PublishTo(e, d)
    \/ PostEncodeError
    \/ \E accepted \in BOOLEAN : PostRespond(accepted)
    \/ \E w \in 1..3 : ForeignPub(w)
    \/ \E ds \in DaemonLists : Consumer(ds)
    \/ \E m \in nsqd : ConsumeFiltered(m)
    \/ \E m \in held : Deserialize(m)
    \/ \E m \in held : Finish(m)
    \/ Resume

NextSQS ==
    \/ \E e \in SqsEvents : Publish(e)
    \/ \E o \in SendOutcomes : SendRespond(o)
    \/ ForeignSend
    \/ \E d \in BOOLEAN : PollMessages(d)
    \/ \E d \in BOOLEAN : Poll(d)
    \/ ReceiveError
    \/ ReceiveRespond
    \/ DeleteSkip
    \/ \E o \in DeleteOutcomes : DeleteRespond(o)
    \/ PollReturn
    \/ Resume

Next == NextSQS \/ NextNSQ

\* both brokers, their foreign producers and the consumer task
Spec == Init /\ [][Next]_vars

\* broker B alone
SpecSQS == Init /\ [][NextSQS]_vars

\* broker A alone
SpecNSQ == Init /\ [][NextNSQ]_vars

\* receiving and decoding on both brokers: messages of foreign producers,
\* poll on broker B, the consumer task on broker A
NextDecode ==
    \/ ForeignSend
    \/ \E d \in BOOLEAN : Poll(d)
    \/ ReceiveError
    \/ ReceiveRespond
    \/ DeleteSkip
    \/ \E o \in DeleteOutcomes : DeleteRespond(o)
    \/ PollReturn
    \/ Resume
    \/ \E w \in 1..3 : ForeignPub(w)
    \/ \E ds \in DaemonLists : Consumer(ds)
    \/ \E m \in nsqd : ConsumeFiltered(m)
    \/ \E m \in held : Deserialize(m)

SpecDecode == Init /\ [][NextDecode]_vars

\* the calls of the crate that issue broker requests
NextCalls ==
    \/ \E e \in NsqEvents, host \in PubHosts : PublishToUrl(e, host)
    \/ \E e \in NsqEvents, d \in 1..3 : PublishTo(e, d)
    \/ PostEncodeError
    \/ \E accepted \in BOOLEAN : PostRespond(accepted)
    \/ \E e \in SqsEvents : Publish(e)
    \/ \E o \in SendOutcomes : SendRespond(o)
    \/ \E d \in BOOLEAN : PollMessages(d)
    \/ \E d \in BOOLEAN : Poll(d)
    \/ ReceiveError
    \/ ReceiveRespond
    \/ DeleteSkip
    \/ \E o \in DeleteOutcomes : DeleteRespond(o)
    \/ PollReturn
    \/ Resume

SpecCalls == Init /\ [][NextCalls]_vars

\* publish_to, consumer, receive, finish
NextDeliver ==
    \/ \E e \in NsqEvents, d \in 1..3 : PublishTo(e, d)
    \/ PostEncodeError
    \/ \E accepted \in BOOLEAN : PostRespond(accepted)
    \/ \E ds \in DaemonLists : Consumer(ds)
    \/ \E m \in nsqd : ConsumeFiltered(m)
    \/ \E m \in held : Finish(m)
    \/ Resume

\* nsqd delivers every message it holds for a connected session, and the
\* consumer task keeps receiving
FairSpecNSQ ==
    /\ Init /\ [][NextDeliver]_vars
    /\ \A id \in 1..MaxMsgs :
          WF_vars(\E m \in nsqd : m.id = id /\ ConsumeFiltered(m))

\* endpoint selection alone
SpecEndpoint == InitEndpoint /\ [][NextEndpoint]_vars

\* every outcome of a random draw is drawn again and again
FairSpecEndpoint ==
    /\ SpecEndpoint
    /\ \A i \in 1..3 : WF_vars(FleetRand(i)) /\ WF_vars(RandNsqUrl(i))
    /\ \A uk \in UrlPicks : WF_vars(RandNsqdUrl(uk[1], uk[2]))

----------------------------------------------------------------------------
(* Properties *)

Returned(o) == pc = "returned" /\ op = o

QueueIds == { q.id : q \in queue }

Count(kinds) == Cardinality({ k \in 1..Len(reqs) : reqs[k].kind \in kinds })

\* C1: every send request of ClientSQS::publish carries the group identifier
\* event.group_id() returns: Some(g) unmodified, and none when it is None.
C1_GroupIdPassedThrough ==
    \A k \in 1..Len(reqs) :
        reqs[k].kind = "send" => reqs[k].group = GroupId(arg.event)

\* C2 as stated: after poll_messages returns Ok, with delete_on_receipt every
\* returned message is absent from the queue; without it every returned message
\* is still on the queue and no delete request was issued.
C2_Original ==
    (Returned("poll_messages") /\ ret.kind = "ok") =>
        IF arg.delete_on_receipt
        THEN \A k \in 1..Len(ret.val) : ret.val[k].id \notin QueueIds
        ELSE /\ \A k \in 1..Len(ret.val) : ret.val[k].id \in QueueIds
             /\ Count({"delete"}) = 0

\* C2 as amended: with delete_on_receipt every returned message that carries a
\* receipt handle is absent from the queue, and a returned message without a
\* receipt handle is left on it; without delete_on_receipt as stated.
C2_DeleteOnReceipt ==
    (Returned("poll_messages") /\ ret.kind = "ok") =>
        IF arg.delete_on_receipt
        THEN \A k \in 1..Len(ret.val) :
                 HasHandle(ret.val[k]) <=> ret.val[k].id \notin QueueIds
        ELSE /\ \A k \in 1..Len(ret.val) : ret.val[k].id \in QueueIds
             /\ Count({"delete"}) = 0

C2_Witness ==
    /\ Returned("poll_messages") /\ ret.kind = "ok"
    /\ arg.delete_on_receipt
    /\ \E k \in 1..Len(ret.val) : HasHandle(ret.val[k])
    /\ \E k \in 1..Len(ret.val) : ~HasHandle(ret.val[k])

\* the receipt handles the value returned by the current call gives the caller
ReturnedHandles ==
    IF op = "poll_messages" /\ ret.kind = "ok"
    THEN { Unwrap(ret.val[k].receipt_handle) :
             k \in { j \in 1..Len(ret.val) : HasHandle(ret.val[j]) } }
    ELSE {}

\* the payloads the value returned by poll gives the caller
ReturnedEvents ==
    IF op = "poll" /\ ret.kind = "ok"
    THEN { ret.val[k] : k \in 1..Len(ret.val) }
    ELSE {}

\* C3: after a decode error the caller still holds the broker handle of every
\* message received in the same call, and the well-formed messages of the batch
\* are not lost to it (broker A: deserialize_event; broker B: poll).
C3_DecodeErrorKeepsHandles ==
    /\ (dres.kind = "done" /\ dres.res.kind = "err") =>
           \E m \in held : m.id = dres.id
    /\ (Returned("poll") /\ ret.kind = "err" /\ ret.err = "SerdeJSON") =>
           \A k \in 1..Len(msgs) :
               /\ HasHandle(msgs[k]) =>
                      Unwrap(msgs[k].receipt_handle) \in ReturnedHandles
               /\ FromJson(Unwrap(msgs[k].body)).ok =>
                      FromJson(Unwrap(msgs[k].body)).val \in ReturnedEvents

\* what rand_nsq_url returns when the environment names daemon j
EnvUrl(j) ==
    <<"http://">> \o Unwrap(env[VarHost(j)]) \o <<":">> \o Unwrap(env[VarHttp(j)])

EnvNames(j) == IsSome(env[VarHost(j)]) /\ IsSome(env[VarHttp(j)])

SelectedMember ==
    /\ sel.call = "FleetNSQ::rand" =>
           /\ sel.res.kind = "ok"
           /\ \E j \in 1..3 : sel.res.val = AsRefs(fleet.val)[j]
    /\ sel.call = "rand_nsqd_url" =>
           /\ sel.res.kind = "ok"
           /\ \E k \in 1..Len(Split(sel.urls, <<>>)) :
                  sel.res.val = Split(sel.urls, <<>>)[k]
    /\ sel.call = "rand_nsq_url" =>
           /\ (\A j \in 1..3 : EnvNames(j)) => sel.res.kind = "ok"
           /\ sel.res.kind = "ok" =>
                  \E j \in 1..3 : EnvNames(j) /\ sel.res.val = EnvUrl(j)

SessionOver(d) ==
    session # NoSession /\ \E k \in 1..Len(session.over) : session.over[k] = d

\* the session listens where a message published through publish_to went
SameDestination ==
    \A m \in nsqd \cup held :
        (IsSome(m.sent) /\ session # NoSession) =>
            /\ session.topic = m.topic
            /\ (m.via # 0 /\ SessionOver(m.via)) => Connected(session, m.daemon)

Pending(id) ==
    \E m \in nsqd : m.id = id /\ IsSome(m.sent) /\ m.via # 0 /\ SessionOver(m.via)

Got(id) ==
    \E m \in held :
        m.id = id /\ IsSome(m.sent) /\ DeserializeEvent(m.body) = Ok(Unwrap(m.sent))

\* C5: a payload published with publish_to to daemon d, with a session built by
\* consumer() over a list containing d: the session subscribes to the topic the
\* publish targeted and addresses d's consume address, and a receive eventually
\* yields an envelope whose deserialize_event result equals the payload.
C5_PublishedIsReceived ==
    /\ []SameDestination
    /\ \A id \in 1..MaxMsgs : Pending(id) ~> Got(id)

C5_Witness ==
    \E m \in held :
        /\ Got(m.id)
        /\ m.via = 3 /\ SessionOver(3)
        /\ Unwrap(m.sent).user_id < 0

\* C6: the session built by consumer() has max_in_flight 1 by default, so one
\* session never holds more than one delivered envelope that is not finished.
C6_OneInFlightByDefault ==
    /\ session # NoSession => session.max_in_flight = 1
    /\ Cardinality(held) <= 1

\* the documented fallback publish URL
DefaultPubUrl == <<"http://", "127.0.0.1", ":", "4", "1", "5", "1">>

\* C7: resolving the publish endpoint from the environment never fails: with
\* variables set, unset or invalid it returns a URL, the default one when the
\* environment does not name the daemon.
C7_EnvResolutionNeverFails ==
    /\ sel.call = "rand_nsq_url" =>
           /\ sel.res.kind = "ok"
           /\ \/ \E j \in 1..3 : EnvNames(j) /\ sel.res.val = EnvUrl(j)
              \/ sel.res.val = DefaultPubUrl
    /\ sel.call = "FleetNSQ::new_from_env" => sel.res.kind = "ok"

\* C8: ClientSQS::publish ends in Ok(message id) or in Err(typed error), for
\* every answer of the broker; it never panics.
C8_PublishOkOrErr ==
    Returned("publish") =>
        \/ ret.kind = "ok" /\ \E k \in 1..Len(reqs) : reqs[k].kind = "send" /\ reqs[k].ok
        \/ ret.kind = "err" /\ ret.err \in {"SQS", "SerdeJSON"}

Handles == { reqs[k].handle : k \in { j \in 1..Len(reqs) : reqs[j].kind = "delete" } }

\* C9: no call re-issues a broker request: a publish makes at most one send,
\* poll_messages makes exactly one receive and at most one delete per received
\* message, and a failed request is the call's last, its error returned.
C9_NoRetry ==
    /\ Count({"post", "send"}) <= 1
    /\ Count({"receive"}) <= 1
    /\ (pc = "returned" /\ op \in {"poll_messages", "poll"}) => Count({"receive"}) = 1
    /\ op \in {"publish", "publish_to", "publish_to_url"} => Count({"receive", "delete"}) = 0
    /\ op \in {"poll_messages", "poll"} => Count({"post", "send"}) = 0
    /\ \A h \in Handles :
          /\ Cardinality({ k \in 1..Len(reqs) :
                             reqs[k].kind = "delete" /\ reqs[k].handle = h }) = 1
          /\ \E k \in 1..Len(msgs) : msgs[k].receipt_handle = Some(h)
    /\ \A k \in 1..Len(reqs) :
          ~reqs[k].ok => /\ k = Len(reqs)
                         /\ pc = "returned"
                         /\ ret.kind = "err"

C9_Witness ==
    /\ Returned("poll_messages")
    /\ Len(reqs) = 2
    /\ reqs[2].kind = "delete" /\ ~reqs[2].ok
    /\ Len(msgs) = 2

\* the messages the current call removed from the queue
DeletedByCall ==
    { reqs[k].handle :
        k \in { j \in 1..Len(reqs) : reqs[j].kind = "delete" /\ reqs[j].applied } }

\* C10: whenever poll_messages with delete_on_receipt returns, with Ok or with
\* Err, every message it deleted from the queue is in the value it returned.
C10_DeletedAreReturned ==
    (Returned("poll_messages") /\ arg.delete_on_receipt) =>
        DeletedByCall \subseteq ReturnedHandles

====
